---- MODULE Spec2Model ----
(***************************************************************************)
(* rngd: the main thread of the daemon (rngd.c) and the pipeline of the    *)
(* three worker threads it starts.                                         *)
(*                                                                         *)
(* One rngd instance is modelled as a record proc[p]: the globals of       *)
(* rngd.c (am_daemon, masterprocess, exitstatus, daemon_lockfp, rng_stats, *)
(* the signal flags), the locals of main() (sleeptime, the position pc),   *)
(* the three worker threads it creates, the buffer pool they share and the *)
(* log it writes.  The pidfile and the flock() lock on it are shared by    *)
(* all instances.                                                          *)
(*                                                                         *)
(* Spec and SpecTwo run main() with workers that only record statistics;   *)
(* SpecPool runs it with the workers passing buffers through the pool.     *)
(***************************************************************************)
EXTENDS Integers, Sequences, FiniteSets, TLC

VARIABLES
    proc,          \* proc[p]: the state of rngd instance p
    pidfile,       \* the bytes of the pidfile (PIDFILE), a sequence of characters
    flock_owner    \* who holds flock(LOCK_EX) on the pidfile: an instance or None

vars == <<proc, pidfile, flock_owner>>

(***************************************************************************)
(* Bounds of the model                                                     *)
(***************************************************************************)
\* the source reads at most MaxBlocks blocks
MaxBlocks == 2
\* an interrupted sleep() returns a remainder that is a multiple of SleepGrain
\* (or the whole argument)
SleepGrain == 1800
\* the entropy source delivers at most MaxFills blocks
MaxFills == 4
\* the configured number of consecutive bad blocks that is fatal
bad_block_threshold == 2

(***************************************************************************)
(* Program constants                                                       *)
(***************************************************************************)
RNGD_STAT_SLEEP_TIME == 3600
\* default_arguments.rng_buffers
rng_buffers == 3
\* exits.h
EXIT_SUCCESS == "EXIT_SUCCESS"
EXIT_USAGE == "EXIT_USAGE"
EXIT_OSERR == "EXIT_OSERR"
\* the size of one block, fips.h FIPS_RNG_BUFFER_SIZE
FIPS_RNG_BUFFER_SIZE == 2500
\* the monobit test accepts a count of set bits in this interval
MONOBIT_LOW == 9725
MONOBIT_HIGH == 10275

None == "none"
\* the rngd instances; the second one only runs in SpecTwo
Procs == {"A", "B"}
\* an rngd started earlier, outside the model, that may hold the lock
Other == "other"

\* what kernel_mode() may return: KERNEL_UNSUPPORTED or one of the kernels rngd
\* supports
KernelModes == {"KERNEL_UNSUPPORTED", "KERNEL_SUPPORTED"}

\* the worker threads, their entry points and the statistics group each owns
Workers == {"source", "fips", "sink"}
GroupOf(w) ==
    CASE w = "source" -> "group1_mutex"
      [] w = "fips" -> "group2_mutex"
      [] w = "sink" -> "group3_mutex"
Mutexes == {"group1_mutex", "group2_mutex", "group3_mutex"}

\* the mutex that guards each field of struct rng_stats
StatGroup(field) ==
    CASE field \in {"bytes_received"} -> "group1_mutex"
      [] field \in {"good_fips_blocks", "bad_fips_blocks"} -> "group2_mutex"
      [] field \in {"bytes_sent", "entropy_sent", "buffer_lowmark"} -> "group3_mutex"

(***************************************************************************)
(* PIDs and the text of the pidfile                                        *)
(***************************************************************************)
\* getpid() of the process the instance starts as
ParentPid(p) == CASE p = "A" -> 1234 [] p = "B" -> 4321 [] OTHER -> 31337
\* getpid() after daemon() has forked: the PIDs fork() may give the child
ChildPids(p) == IF p = "A" THEN {58} ELSE {10234}

Digit(d) ==
    CASE d = 0 -> "0" [] d = 1 -> "1" [] d = 2 -> "2" [] d = 3 -> "3"
      [] d = 4 -> "4" [] d = 5 -> "5" [] d = 6 -> "6" [] d = 7 -> "7"
      [] d = 8 -> "8" [] d = 9 -> "9"
DigitVal(c) ==
    CASE c = "0" -> 0 [] c = "1" -> 1 [] c = "2" -> 2 [] c = "3" -> 3
      [] c = "4" -> 4 [] c = "5" -> 5 [] c = "6" -> 6 [] c = "7" -> 7
      [] c = "8" -> 8 [] c = "9" -> 9
IsDigit(c) == c \in {"0", "1", "2", "3", "4", "5", "6", "7", "8", "9"}

\* printf("%ld", n) for n >= 0
RECURSIVE Decimal(_)
Decimal(n) == IF n < 10 THEN <<Digit(n)>> ELSE Decimal(n \div 10) \o <<Digit(n % 10)>>

\* fprintf(daemon_lockfp, "%ld\n", pid)
PidLine(pid) == Decimal(pid) \o <<"\n">>

\* the value fscanf(fp, "%d", &otherpid) stores from the start of the file;
\* otherpid keeps its initial 0 when the file does not start with a number
RECURSIVE ScanDigits(_, _)
ScanDigits(s, acc) ==
    IF s = <<>> \/ ~IsDigit(Head(s)) THEN acc
    ELSE ScanDigits(Tail(s), acc * 10 + DigitVal(Head(s)))
ScanPid(content) == ScanDigits(content, 0)

\* rewind(fp); fprintf(fp, ...); fflush(fp): the bytes are written over the
\* start of the file and what was beyond them stays
WriteAtStart(content, bytes) ==
    IF Len(bytes) >= Len(content) THEN bytes
    ELSE bytes \o SubSeq(content, Len(bytes) + 1, Len(content))

\* ftruncate(fd, len)
Truncate(content, len) ==
    IF len <= Len(content) THEN SubSeq(content, 1, len) ELSE content

(***************************************************************************)
(* The buffer pool                                                         *)
(***************************************************************************)
\* the content of a buffer no block has been read into
NoBlock == [seq |-> 0, ones |-> 0, rest |-> TRUE]

\* the blocks the entropy source may deliver: the number of set bits among the
\* 20000 and whether the poker, runs, long-run and continuous-run tests accept
\* the block.  One block has a set bit too few, one is good, one has a set bit
\* too many and fails other tests as well.
BlockData ==
    { [ones |-> MONOBIT_LOW - 1, rest |-> TRUE],
      [ones |-> MONOBIT_LOW + 275, rest |-> TRUE],
      [ones |-> MONOBIT_HIGH + 1, rest |-> FALSE] }

\* the pool of n buffers, all of them empty: the three queues hold buffer
\* numbers, oldest first; held[w] is the buffer worker w has acquired, 0 for none
init_rng_buffers(n) ==
    [empty |-> [i \in 1..n |-> i],
     full |-> <<>>,
     accepted |-> <<>>,
     buf |-> [i \in 1..n |-> NoBlock],
     held |-> [w \in Workers |-> 0]]

\* no pool yet
NoPool == init_rng_buffers(0)

\* acquire_empty(): the oldest empty buffer goes to the caller
acquire_empty(pool, w) ==
    [pool EXCEPT !.held[w] = Head(pool.empty), !.empty = Tail(@)]

\* commit_filled(): the caller's buffer, now holding block, is ready for the test
commit_filled(pool, w, block) ==
    [pool EXCEPT !.buf[pool.held[w]] = block,
                 !.full = Append(@, pool.held[w]),
                 !.held[w] = 0]

\* faulty variant: the buffer committed last goes to the caller
acquire_for_test_newest(pool, w) ==
    [pool EXCEPT !.held[w] = pool.full[Len(pool.full)],
                 !.full = SubSeq(@, 1, Len(pool.full) - 1)]

\* acquire_for_test(): the buffer committed first goes to the caller
acquire_for_test(pool, w) ==
    [pool EXCEPT !.held[w] = Head(pool.full), !.full = Tail(@)]

\* release_empty(): the caller's buffer is empty again
release_empty(pool, w) ==
    [pool EXCEPT !.buf[pool.held[w]] = NoBlock,
                 !.empty = Append(@, pool.held[w]),
                 !.held[w] = 0]

\* faulty variant: a block that failed is queued for the sink like a good one
commit_tested_keeps_bad(pool, w, verdict) ==
    [pool EXCEPT !.accepted = Append(@, pool.held[w]), !.held[w] = 0]

\* commit_tested(): a block that passed is ready for the sink, one that failed
\* is recycled at once
commit_tested(pool, w, verdict) ==
    IF verdict
    THEN [pool EXCEPT !.accepted = Append(@, pool.held[w]), !.held[w] = 0]
    ELSE release_empty(pool, w)

\* acquire_for_sink(): the accepted buffer committed first goes to the caller
acquire_for_sink(pool, w) ==
    [pool EXCEPT !.held[w] = Head(pool.accepted), !.accepted = Tail(@)]

\* the verdict of the FIPS tests on a block
fips_run_rng_test(block) ==
    /\ MONOBIT_LOW <= block.ones /\ block.ones <= MONOBIT_HIGH
    /\ block.rest

(***************************************************************************)
(* State of one instance                                                   *)
(***************************************************************************)
\* struct rng_stats after memset(&rng_stats, 0, sizeof(rng_stats)): the
\* static storage of the global before init_rng_stats() runs
ZeroStats ==
    [bytes_received |-> 0, good_fips_blocks |-> 0, bad_fips_blocks |-> 0,
     bytes_sent |-> 0, entropy_sent |-> 0, buffer_lowmark |-> 0]

\* the process image at the start of main(); `daemon` is arguments->daemon (1 in
\* default_arguments, cleared by a configuration that asks for the foreground)
\* and host_kernel what kernel_mode() will find
ProcInit(p, daemon, host_kernel) ==
    [pc |-> "kernel_mode",
     host_kernel |-> host_kernel,
     daemon |-> daemon,
     pid |-> ParentPid(p),
     \* globals of rngd.c
     kernel |-> None,
     am_daemon |-> FALSE,
     masterprocess |-> 0,
     exitstatus |-> EXIT_SUCCESS,
     daemon_lockfp |-> FALSE,
     fpos |-> 0,
     locked |-> FALSE,
     rng_stats |-> ZeroStats,
     mutex |-> [m \in Mutexes |-> "free"],
     \* rngd_signals
     handlers |-> FALSE,
     gotsigterm |-> FALSE,
     gotsigusr1 |-> FALSE,
     \* rngd_threads
     buffers |-> FALSE,
     thread |-> [w \in Workers |-> "none"],
     pool |-> NoPool,
     fills |-> 0,
     bad_run |-> 0,
     \* locals of main() and of the calls in progress
     sleeptime |-> 0,
     glret |-> None,
     dpc |-> 0,
     \* the ALOGE and ALOGI lines the process has written, and its exit status
     log |-> <<>>,
     exitcode |-> None,
     \* history: where the process left, what the workers have added to the
     \* statistics since the start, whether every number dump_rng_stats() has
     \* logged was that sum, whether a dump has completed since sleep() last
     \* returned, whether the termination flag was set when sleep() last returned,
     \* whether the main loop was entered, the least ready count the sink has
     \* recorded, whether a dump was requested and no dump has started since, the
     \* seconds slept since the timer was last set to RNGD_STAT_SLEEP_TIME, the
     \* fill number of the block the sink took last
     site |-> None,
     total |-> ZeroStats,
     logged_total |-> TRUE,
     flushed |-> FALSE,
     term_at_wake |-> FALSE,
     in_loop |-> FALSE,
     least_ready |-> rng_buffers - 1,
     req |-> FALSE,
     slept |-> 0,
     last_sunk |-> 0]

\* an instance that is not started
Absent(p) == [ProcInit(p, TRUE, "KERNEL_SUPPORTED") EXCEPT !.pc = "absent"]

\* the pidfile a daemon that ran before has left, or none
PidfilesAtStart == {<<>>, PidLine(ParentPid(Other))}

Init ==
    /\ \E d \in BOOLEAN, k \in KernelModes :
           proc = [p \in Procs |-> IF p = "A" THEN ProcInit(p, d, k) ELSE Absent(p)]
    /\ pidfile \in PidfilesAtStart
    /\ flock_owner \in {None, Other}
    /\ flock_owner = Other => pidfile = PidLine(ParentPid(Other))
    \* an instance that is no daemon never touches the pidfile
    /\ ~proc["A"].daemon => pidfile = <<>> /\ flock_owner = None

\* two daemon-mode instances started on the same host with the same pidfile
InitTwo ==
    /\ \E k \in KernelModes : proc = [p \in Procs |-> ProcInit(p, TRUE, k)]
    /\ pidfile \in PidfilesAtStart
    /\ flock_owner = None

(***************************************************************************)
(* Logging and leaving                                                     *)
(***************************************************************************)
\* ALOGE / ALOGI: msg is the format string, arg the text of its arguments
Logged(r, sev, msg, arg) ==
    [r EXCEPT !.log = Append(@, [sev |-> sev, msg |-> msg, arg |-> arg])]

\* exit(status), or main returning status
exit(r, status) == [r EXCEPT !.pc = "exited", !.exitcode = status]

\* faulty variant: die() that ignores its argument
die_fixed_status(r, status) == exit(r, EXIT_OSERR)

die(r, status) ==
    exit(IF r.am_daemon
         THEN Logged(r, "E", "Exiting with status %d...", <<status>>)
         ELSE r,
         status)

At(r, site) == [r EXCEPT !.site = site]

\* one step of instance p: its new image, the new lock owner and pidfile.
\* When the process is gone the kernel closes its descriptors, which drops the
\* flock() lock it held.
Step(p, r, owner, file) ==
    /\ proc' = [proc EXCEPT ![p] = r]
    /\ flock_owner' = IF r.pc = "exited" /\ owner = p THEN None ELSE owner
    /\ pidfile' = file

Local(p, r) == Step(p, r, flock_owner, pidfile)

Running(p) == proc[p].pc \notin {"absent", "exited"}

(***************************************************************************)
(* main(): start-up                                                        *)
(***************************************************************************)
\* kernel = kernel_mode(); if (kernel == KERNEL_UNSUPPORTED) ... die
kernel_mode(p) ==
    LET r == proc[p]
        r1 == [r EXCEPT !.kernel = r.host_kernel]
    IN  /\ r.pc = "kernel_mode"
        /\ IF r1.kernel = "KERNEL_UNSUPPORTED"
           THEN Local(p, die(At(Logged(r1, "E", "Unsupported kernel detected, exiting...", <<>>),
                                "kernel"), EXIT_OSERR))
           ELSE Local(p, [r1 EXCEPT !.pc = "init_rng_stats"])

\* faulty variant: the low mark starts at n, the buffer in use is not counted
init_rng_stats_all_ready(n) == [ZeroStats EXCEPT !.buffer_lowmark = n]

\* the value init_rng_stats(n) gives struct rng_stats
init_rng_stats(n) == [ZeroStats EXCEPT !.buffer_lowmark = n - 1]

\* close the stray descriptors; init_rng_stats(arguments->rng_buffers)
main_init_rng_stats(p) ==
    LET r == proc[p]
    IN  /\ r.pc = "init_rng_stats"
        /\ Local(p, [r EXCEPT !.rng_stats = init_rng_stats(rng_buffers),
                              !.mutex = [m \in Mutexes |-> "free"],
                              !.pc = "init_sighandlers"])

\* faulty variant: the first get_lock() call is missing, the pidfile is only
\* locked after daemon()
main_init_sighandlers_no_lock(p) ==
    LET r == proc[p]
    IN  /\ r.pc = "init_sighandlers"
        /\ Local(p, [r EXCEPT !.handlers = TRUE,
                              !.pc = IF r.daemon THEN "daemon" ELSE "masterprocess"])

\* init_sighandlers(); init_entropy_source(); init_kernel_rng();
\* if (arguments->daemon)
main_init_sighandlers(p) ==
    LET r == proc[p]
    IN  /\ r.pc = "init_sighandlers"
        /\ Local(p, [r EXCEPT !.handlers = TRUE,
                              !.glret = IF r.daemon THEN "daemon" ELSE None,
                              !.pc = IF r.daemon THEN "get_lock" ELSE "masterprocess"])

(***************************************************************************)
(* get_lock()                                                              *)
(***************************************************************************)
\* if (!daemon_lockfp) { open(), fdopen(), fcntl() }
get_lock_open(p) ==
    LET r == proc[p]
    IN  /\ r.pc = "get_lock"
        /\ IF r.daemon_lockfp
           THEN Local(p, [r EXCEPT !.pc = "get_lock_write"])
           ELSE \E opened \in BOOLEAN :
                    IF opened
                    THEN Local(p, [r EXCEPT !.daemon_lockfp = TRUE, !.fpos = 0,
                                            !.pc = "get_lock_flock"])
                    ELSE Local(p, die(At(Logged(r, "E", "can't open or create %s", <<>>),
                                         "open"), EXIT_USAGE))

\* what flock(daemon_lockfd, LOCK_EX|LOCK_NB) answers once it is not EINTR:
\* the lock is given only when nobody holds it
FlockResults(owner) ==
    IF owner = None THEN {"ok", "error"} ELSE {"EWOULDBLOCK", "error"}

\* faulty variant: the result of flock() is logged but the instance goes on
get_lock_flock_goes_on(p) ==
    LET r == proc[p]
    IN  /\ r.pc = "get_lock_flock"
        /\ \E res \in FlockResults(flock_owner) :
              IF res = "ok"
              THEN Step(p, [r EXCEPT !.locked = TRUE, !.pc = "get_lock_write"], p, pidfile)
              ELSE Local(p, [Logged(r, "E", "can't lock %s", <<>>)
                                EXCEPT !.pc = "get_lock_write"])

\* do { r = flock(...) } while (r && errno == EINTR); if (r) { ...; die }
get_lock_flock(p) ==
    LET r == proc[p]
    IN  /\ r.pc = "get_lock_flock"
        /\ \E res \in FlockResults(flock_owner) :
              CASE res = "ok" ->
                     Step(p, [r EXCEPT !.locked = TRUE, !.pc = "get_lock_write"], p, pidfile)
                [] res = "EWOULDBLOCK" ->
                     Local(p, die(At(Logged(r, "E",
                                            "can't lock %s, running daemon's pid may be %d",
                                            Decimal(ScanPid(pidfile))),
                                     "lock"), EXIT_USAGE))
                [] res = "error" ->
                     Local(p, die(At(Logged(r, "E", "can't lock %s", <<>>), "lock"),
                                  EXIT_USAGE))

\* rewind(daemon_lockfp); fprintf(daemon_lockfp, "%ld\n", getpid()); fflush()
get_lock_write(p) ==
    LET r == proc[p]
    IN  /\ r.pc = "get_lock_write"
        /\ Step(p, [r EXCEPT !.fpos = Len(PidLine(r.pid)), !.pc = "get_lock_truncate"],
                flock_owner, WriteAtStart(pidfile, PidLine(r.pid)))

\* faulty variant: the file is not truncated after the PID is written
get_lock_no_truncate(p) ==
    LET r == proc[p]
    IN  /\ r.pc = "get_lock_truncate"
        /\ Local(p, [r EXCEPT !.pc = r.glret, !.glret = None])

\* ftruncate(fileno(daemon_lockfp), ftell(daemon_lockfp)); return
get_lock_truncate(p) ==
    LET r == proc[p]
    IN  /\ r.pc = "get_lock_truncate"
        /\ Step(p, [r EXCEPT !.pc = r.glret, !.glret = None],
                flock_owner, Truncate(pidfile, r.fpos))

get_lock(p) ==
    \/ get_lock_open(p)
    \/ get_lock_flock(p)
    \/ get_lock_write(p)
    \/ get_lock_truncate(p)

(***************************************************************************)
(* main(): going daemon, starting the workers                              *)
(***************************************************************************)
\* if (daemon(0, 0) < 0) { ...; return EXIT_OSERR; } am_daemon = 1;
\* get_lock(arguments->pidfile_name);
main_daemon(p) ==
    LET r == proc[p]
    IN  /\ r.pc = "daemon"
        /\ \/ Local(p, exit(At(Logged(r, "E", "can't daemonize", <<>>), "daemon"),
                            EXIT_OSERR))
           \/ \E child \in ChildPids(p) :
                 Local(p, [r EXCEPT !.pid = child, !.am_daemon = TRUE,
                                    !.glret = "masterprocess", !.pc = "get_lock"])

\* masterprocess = getpid(); ALOGI(... starting up...)
main_masterprocess(p) ==
    LET r == proc[p]
    IN  /\ r.pc = "masterprocess"
        /\ Local(p, [Logged(r, "I", "rngd starting up...", <<>>)
                        EXCEPT !.masterprocess = r.pid, !.pc = "init_rng_buffers"])

\* faulty variant: the workers are started on a pool that was never set up
main_init_rng_buffers_no_pool(p) ==
    LET r == proc[p]
    IN  /\ r.pc = "init_rng_buffers"
        /\ Local(p, [r EXCEPT !.buffers = TRUE, !.handlers = TRUE,
                              !.pc = "pthread_create"])

\* init_rng_buffers(arguments->rng_buffers); init_sighandlers();
main_init_rng_buffers(p) ==
    LET r == proc[p]
    IN  /\ r.pc = "init_rng_buffers"
        /\ Local(p, [r EXCEPT !.buffers = TRUE, !.handlers = TRUE,
                              !.pool = init_rng_buffers(rng_buffers),
                              !.pc = "pthread_create"])

\* one of the three pthread_create() calls, the operands of | in any order
main_pthread_create(p, w) ==
    LET r == proc[p]
    IN  /\ r.pc = "pthread_create"
        /\ r.thread[w] = "none"
        /\ \E res \in {"running", "failed"} :
              Local(p, [r EXCEPT !.thread[w] = res])

\* faulty variant: || instead of |, the first failure ends the attempts
main_threads_started_short_circuit(p) ==
    LET r == proc[p]
    IN  /\ r.pc = "pthread_create"
        /\ \/ \E w \in Workers : r.thread[w] = "failed"
           \/ \A w \in Workers : r.thread[w] # "none"
        /\ IF \E w \in Workers : r.thread[w] = "failed"
           THEN Local(p, die(At(Logged(r, "E", "Insufficient resources to start threads",
                                       <<>>), "threads"), EXIT_OSERR))
           ELSE Local(p, [r EXCEPT !.sleeptime = RNGD_STAT_SLEEP_TIME,
                                   !.in_loop = TRUE, !.pc = "while"])

\* if (... | ... | ...) { ALOGE; die(EXIT_OSERR); } sleeptime = RNGD_STAT_SLEEP_TIME;
main_threads_started(p) ==
    LET r == proc[p]
    IN  /\ r.pc = "pthread_create"
        /\ \A w \in Workers : r.thread[w] # "none"
        /\ IF \E w \in Workers : r.thread[w] = "failed"
           THEN Local(p, die(At(Logged(r, "E", "Insufficient resources to start threads",
                                       <<>>), "threads"), EXIT_OSERR))
           ELSE Local(p, [r EXCEPT !.sleeptime = RNGD_STAT_SLEEP_TIME,
                                   !.in_loop = TRUE, !.pc = "while"])

(***************************************************************************)
(* dump_rng_stats()                                                        *)
(***************************************************************************)
\* faulty variant: group3_mutex is taken before group1_mutex is released
DumpProgNested ==
    << [op |-> "lock",   mutex |-> "group1_mutex", field |-> None],
       [op |-> "log",    mutex |-> None,           field |-> "bytes_received"],
       [op |-> "lock",   mutex |-> "group3_mutex", field |-> None],
       [op |-> "unlock", mutex |-> "group1_mutex", field |-> None],
       [op |-> "log",    mutex |-> None,           field |-> "bytes_sent"],
       [op |-> "log",    mutex |-> None,           field |-> "entropy_sent"],
       [op |-> "unlock", mutex |-> "group3_mutex", field |-> None],
       [op |-> "lock",   mutex |-> "group2_mutex", field |-> None],
       [op |-> "log",    mutex |-> None,           field |-> "good_fips_blocks"],
       [op |-> "log",    mutex |-> None,           field |-> "bad_fips_blocks"],
       [op |-> "unlock", mutex |-> "group2_mutex", field |-> None],
       [op |-> "lock",   mutex |-> "group1_mutex", field |-> None],
       [op |-> "unlock", mutex |-> "group1_mutex", field |-> None],
       [op |-> "lock",   mutex |-> "group2_mutex", field |-> None],
       [op |-> "unlock", mutex |-> "group2_mutex", field |-> None],
       [op |-> "lock",   mutex |-> "group3_mutex", field |-> None],
       [op |-> "unlock", mutex |-> "group3_mutex", field |-> None] >>

\* the statements of dump_rng_stats() in order
DumpProg ==
    << [op |-> "lock",   mutex |-> "group1_mutex", field |-> None],
       [op |-> "log",    mutex |-> None,           field |-> "bytes_received"],
       [op |-> "unlock", mutex |-> "group1_mutex", field |-> None],
       [op |-> "lock",   mutex |-> "group3_mutex", field |-> None],
       [op |-> "log",    mutex |-> None,           field |-> "bytes_sent"],
       [op |-> "log",    mutex |-> None,           field |-> "entropy_sent"],
       [op |-> "unlock", mutex |-> "group3_mutex", field |-> None],
       [op |-> "lock",   mutex |-> "group2_mutex", field |-> None],
       [op |-> "log",    mutex |-> None,           field |-> "good_fips_blocks"],
       [op |-> "log",    mutex |-> None,           field |-> "bad_fips_blocks"],
       [op |-> "unlock", mutex |-> "group2_mutex", field |-> None],
       [op |-> "lock",   mutex |-> "group1_mutex", field |-> None],
       [op |-> "unlock", mutex |-> "group1_mutex", field |-> None],
       [op |-> "lock",   mutex |-> "group2_mutex", field |-> None],
       [op |-> "unlock", mutex |-> "group2_mutex", field |-> None],
       [op |-> "lock",   mutex |-> "group3_mutex", field |-> None],
       [op |-> "unlock", mutex |-> "group3_mutex", field |-> None] >>

\* the number an ALOGV line of dump_rng_stats() shows for a field
Shown(field, v) == IF field \in {"bytes_received", "bytes_sent"} THEN v * 8 ELSE v

\* faulty variant: a counter starts again from 0 once it is logged
StatsResetAfterLog(stats, field) == [stats EXCEPT ![field] = 0]

\* what dump_rng_stats() does to struct rng_stats when it logs a field
StatsAfterLog(stats, field) == stats

\* the statement at r.dpc; after the last one the call returns to main()
DumpStatement(r) ==
    LET s == DumpProg[r.dpc]
        r1 == CASE s.op = "lock" -> [r EXCEPT !.mutex[s.mutex] = "main"]
                [] s.op = "unlock" -> [r EXCEPT !.mutex[s.mutex] = "free"]
                [] s.op = "log" ->
                     [r EXCEPT !.logged_total =
                                   @ /\ Shown(s.field, r.rng_stats[s.field])
                                          = Shown(s.field, r.total[s.field]),
                               !.rng_stats = StatsAfterLog(r.rng_stats, s.field)]
    IN  IF r.dpc < Len(DumpProg)
        THEN [r1 EXCEPT !.dpc = r.dpc + 1]
        ELSE [r1 EXCEPT !.dpc = 0, !.pc = "rearm", !.flushed = TRUE]

dump_rng_stats(p) ==
    LET r == proc[p]
    IN  /\ r.pc = "dump_rng_stats"
        /\ DumpProg[r.dpc].op = "lock" => r.mutex[DumpProg[r.dpc].mutex] = "free"
        /\ Local(p, DumpStatement(r))

(***************************************************************************)
(* main(): the loop                                                        *)
(***************************************************************************)
\* faulty variant: the loop tests the wrong flag
main_while_wrong_flag(p) ==
    LET r == proc[p]
    IN  /\ r.pc = "while"
        /\ Local(p, [r EXCEPT !.pc = IF r.gotsigusr1 THEN "exit" ELSE "sleep"])

\* while (!gotsigterm) { sleeptime = sleep(sleeptime): the call
main_while(p) ==
    LET r == proc[p]
    IN  /\ r.pc = "while"
        /\ Local(p, [r EXCEPT !.pc = IF r.gotsigterm THEN "exit" ELSE "sleep"])

\* what sleep(t) may return: 0 when the time is over, the seconds left when a
\* signal handler has run
Remainders(t) == {0, t} \cup {k * SleepGrain : k \in 1..(t \div SleepGrain)}

\* sleeptime = sleep(sleeptime): the return
main_sleep(p) ==
    LET r == proc[p]
    IN  /\ r.pc = "sleep"
        /\ \E left \in Remainders(r.sleeptime) :
              Local(p, [r EXCEPT !.sleeptime = left, !.flushed = FALSE,
                                 !.slept = @ + (r.sleeptime - left),
                                 !.term_at_wake = r.gotsigterm, !.pc = "if_sleeptime"])

Call_dump_rng_stats(r) == [r EXCEPT !.pc = "dump_rng_stats", !.dpc = 1, !.req = FALSE]

\* if ((sleeptime == 0) || gotsigusr1 || gotsigterm): the operands of ||, in turn
main_if_sleeptime(p) ==
    LET r == proc[p]
    IN  /\ r.pc = "if_sleeptime"
        /\ Local(p, IF r.sleeptime = 0 THEN Call_dump_rng_stats(r)
                    ELSE [r EXCEPT !.pc = "if_gotsigusr1"])

main_if_gotsigusr1(p) ==
    LET r == proc[p]
    IN  /\ r.pc = "if_gotsigusr1"
        /\ Local(p, IF r.gotsigusr1 THEN Call_dump_rng_stats(r)
                    ELSE [r EXCEPT !.pc = "if_gotsigterm"])

main_if_gotsigterm(p) ==
    LET r == proc[p]
    IN  /\ r.pc = "if_gotsigterm"
        /\ Local(p, IF r.gotsigterm THEN Call_dump_rng_stats(r)
                    ELSE [r EXCEPT !.pc = "while"])

\* faulty variant: the request flag is not cleared after the dump
main_rearm_keeps_flag(p) ==
    LET r == proc[p]
    IN  /\ r.pc = "rearm"
        /\ Local(p, [r EXCEPT !.sleeptime = RNGD_STAT_SLEEP_TIME, !.pc = "while"])

\* faulty variant: the timer is not set again after the dump
main_rearm_keeps_timer(p) ==
    LET r == proc[p]
    IN  /\ r.pc = "rearm"
        /\ Local(p, [r EXCEPT !.gotsigusr1 = FALSE, !.slept = 0, !.pc = "while"])

\* sleeptime = RNGD_STAT_SLEEP_TIME; gotsigusr1 = 0; }
main_rearm(p) ==
    LET r == proc[p]
    IN  /\ r.pc = "rearm"
        /\ Local(p, [r EXCEPT !.sleeptime = RNGD_STAT_SLEEP_TIME, !.gotsigusr1 = FALSE,
                              !.slept = 0, !.pc = "while"])

\* faulty variant: the process always leaves with EXIT_SUCCESS
main_exit_success(p) ==
    LET r == proc[p]
    IN  /\ r.pc = "exit"
        /\ Local(p, exit(At(Logged(r, "I", "Exiting...", <<>>), "final"), EXIT_SUCCESS))

\* if (exitstatus == EXIT_SUCCESS) ALOGI(...) else ALOGE(...); exit(exitstatus);
main_exit(p) ==
    LET r == proc[p]
    IN  /\ r.pc = "exit"
        /\ Local(p, exit(At(IF r.exitstatus = EXIT_SUCCESS
                            THEN Logged(r, "I", "Exiting...", <<>>)
                            ELSE Logged(r, "E", "Exiting with status %d", <<r.exitstatus>>),
                            "final"),
                         r.exitstatus))

main(p) ==
    \/ kernel_mode(p)
    \/ main_init_rng_stats(p)
    \/ main_init_sighandlers(p)
    \/ get_lock(p)
    \/ main_daemon(p)
    \/ main_masterprocess(p)
    \/ main_init_rng_buffers(p)
    \/ \E w \in Workers : main_pthread_create(p, w)
    \/ main_threads_started(p)
    \/ main_while(p)
    \/ main_sleep(p)
    \/ main_if_sleeptime(p)
    \/ main_if_gotsigusr1(p)
    \/ main_if_gotsigterm(p)
    \/ dump_rng_stats(p)
    \/ main_rearm(p)
    \/ main_exit(p)

(***************************************************************************)
(* The signal handlers and the worker threads                              *)
(***************************************************************************)
\* a termination request: the handler sets gotsigterm
sigterm(p) ==
    LET r == proc[p]
    IN  /\ Running(p) /\ r.handlers
        /\ ~r.gotsigterm
        /\ Local(p, [r EXCEPT !.gotsigterm = TRUE])

\* the positions of main() inside the body of its loop
LoopBody == {"sleep", "if_sleeptime", "if_gotsigusr1", "if_gotsigterm",
             "dump_rng_stats", "rearm"}

\* a request to dump the statistics: the handler sets gotsigusr1, also when it
\* is set already
sigusr1(p) ==
    LET r == proc[p]
        asked == r.pc \in LoopBody
    IN  /\ Running(p) /\ r.handlers
        /\ ~r.gotsigusr1 \/ (asked /\ ~r.req)
        /\ Local(p, [r EXCEPT !.gotsigusr1 = TRUE, !.req = @ \/ asked])

\* worker w has one more block to record: the source reads at most MaxBlocks
\* blocks, the tests get the blocks the source has read and the sink the blocks
\* that have passed
MayRecord(r, w) ==
    CASE w = "source" -> r.total.bytes_received < MaxBlocks * FIPS_RNG_BUFFER_SIZE
      [] w = "fips" -> (r.total.good_fips_blocks + r.total.bad_fips_blocks)
                          * FIPS_RNG_BUFFER_SIZE < r.total.bytes_received
      [] w = "sink" -> r.total.bytes_sent < r.total.good_fips_blocks * FIPS_RNG_BUFFER_SIZE

Min(a, b) == IF a < b THEN a ELSE b

\* the statistics after worker w has recorded one block; ready is the number
\* of tested-good buffers the sink finds, good the verdict of the tests
Recorded(stats, w, good, ready) ==
    CASE w = "source" ->
           [stats EXCEPT !.bytes_received = @ + FIPS_RNG_BUFFER_SIZE]
      [] w = "fips" ->
           IF good THEN [stats EXCEPT !.good_fips_blocks = @ + 1]
           ELSE [stats EXCEPT !.bad_fips_blocks = @ + 1]
      [] w = "sink" ->
           [stats EXCEPT !.bytes_sent = @ + FIPS_RNG_BUFFER_SIZE,
                         !.entropy_sent = @ + FIPS_RNG_BUFFER_SIZE * 8,
                         !.buffer_lowmark = Min(@, ready)]

\* a worker takes the mutex of its statistics group
worker_lock(p, w) ==
    LET r == proc[p]
    IN  /\ Running(p) /\ r.thread[w] = "running"
        /\ MayRecord(r, w)
        /\ r.mutex[GroupOf(w)] = "free"
        /\ Local(p, [r EXCEPT !.mutex[GroupOf(w)] = w])

\* and records a block under it
worker_record(p, w) ==
    LET r == proc[p]
    IN  /\ Running(p) /\ r.thread[w] = "running"
        /\ r.mutex[GroupOf(w)] = w
        /\ \E good \in BOOLEAN, ready \in 0..(rng_buffers - 1) :
              /\ w # "fips" => good
              /\ w # "sink" => ready = 0
              /\ Local(p, [r EXCEPT !.rng_stats = Recorded(r.rng_stats, w, good, ready),
                                    !.total = [Recorded(r.total, w, good, ready)
                                                  EXCEPT !.buffer_lowmark = 0],
                                    !.least_ready = IF w = "sink" THEN Min(@, ready) ELSE @,
                                    !.mutex[GroupOf(w)] = "free"])

\* a worker that cannot go on records the exit status and asks the main
\* thread to terminate
worker_fatal(p, w) ==
    LET r == proc[p]
    IN  /\ Running(p) /\ r.thread[w] = "running"
        /\ r.mutex[GroupOf(w)] # w
        /\ r.exitstatus = EXIT_SUCCESS
        /\ Local(p, [r EXCEPT !.exitstatus = EXIT_OSERR, !.gotsigterm = TRUE])

worker(p, w) ==
    \/ worker_lock(p, w)
    \/ worker_record(p, w)
    \/ worker_fatal(p, w)

(***************************************************************************)
(* The worker threads on the buffer pool                                   *)
(***************************************************************************)
\* worker w of a live process can run
Alive(p, w) == Running(p) /\ proc[p].thread[w] = "running"

\* r after worker w has recorded a block in the statistics of its group
Record(r, w, good, ready) ==
    [r EXCEPT !.rng_stats = Recorded(r.rng_stats, w, good, ready),
              !.total = [Recorded(r.total, w, good, ready) EXCEPT !.buffer_lowmark = 0],
              !.least_ready = IF w = "sink" THEN Min(@, ready) ELSE @]

\* faulty variant: with no empty buffer the source takes the oldest filled one
source_acquire_overwrites(p) ==
    LET r == proc[p]
    IN  /\ Alive(p, "source")
        /\ r.pool.held["source"] = 0
        /\ r.pool.empty # <<>> \/ r.pool.full # <<>>
        /\ Local(p, [r EXCEPT !.pool = IF r.pool.empty # <<>>
                                        THEN acquire_empty(r.pool, "source")
                                        ELSE acquire_for_test(r.pool, "source")])

\* the source thread waits for an empty buffer
source_acquire(p) ==
    LET r == proc[p]
    IN  /\ Alive(p, "source")
        /\ r.pool.held["source"] = 0
        /\ r.pool.empty # <<>>
        /\ Local(p, [r EXCEPT !.pool = acquire_empty(r.pool, "source")])

\* reads a block into it, counts the bytes and commits the buffer
source_fill(p) ==
    LET r == proc[p]
    IN  /\ Alive(p, "source")
        /\ r.pool.held["source"] # 0
        /\ r.fills < MaxFills
        /\ r.mutex[GroupOf("source")] = "free"
        /\ \E b \in BlockData :
              Local(p, [Record(r, "source", TRUE, 0)
                          EXCEPT !.fills = r.fills + 1,
                                 !.pool = commit_filled(r.pool, "source",
                                              [seq |-> r.fills + 1, ones |-> b.ones,
                                               rest |-> b.rest])])

do_rng_data_source_loop(p) ==
    \/ source_acquire(p)
    \/ source_fill(p)

\* the test thread waits for a filled buffer; it has stopped once it has
\* reported the source broken
fips_acquire(p) ==
    LET r == proc[p]
    IN  /\ Alive(p, "fips")
        /\ r.bad_run < bad_block_threshold
        /\ r.pool.held["fips"] = 0
        /\ r.pool.full # <<>>
        /\ Local(p, [r EXCEPT !.pool = acquire_for_test(r.pool, "fips")])

\* the test thread after bad_block_threshold consecutive bad blocks: it logs
\* the cause, records the exit status and asks the main thread to terminate
fips_escalate(r) ==
    [Logged(r, "E", "too many FIPS failures in a row", <<>>)
        EXCEPT !.exitstatus = EXIT_OSERR, !.gotsigterm = TRUE]

\* tests the block, counts the verdict and commits the buffer
fips_test(p) ==
    LET r == proc[p]
        verdict == fips_run_rng_test(r.pool.buf[r.pool.held["fips"]])
        run == IF verdict THEN 0 ELSE r.bad_run + 1
        r1 == [Record(r, "fips", verdict, 0)
                  EXCEPT !.bad_run = run,
                         !.pool = commit_tested(r.pool, "fips", verdict)]
    IN  /\ Alive(p, "fips")
        /\ r.pool.held["fips"] # 0
        /\ r.mutex[GroupOf("fips")] = "free"
        /\ Local(p, IF run >= bad_block_threshold THEN fips_escalate(r1) ELSE r1)

do_rng_fips_test_loop(p) ==
    \/ fips_acquire(p)
    \/ fips_test(p)

\* the sink thread waits for an accepted buffer
sink_acquire(p) ==
    LET r == proc[p]
    IN  /\ Alive(p, "sink")
        /\ r.pool.held["sink"] = 0
        /\ r.pool.accepted # <<>>
        /\ Local(p, [r EXCEPT !.pool = acquire_for_sink(r.pool, "sink")])

\* submits the block to the kernel, counts it and releases the buffer
sink_submit(p) ==
    LET r == proc[p]
    IN  /\ Alive(p, "sink")
        /\ r.pool.held["sink"] # 0
        /\ r.mutex[GroupOf("sink")] = "free"
        /\ Local(p, [Record(r, "sink", TRUE, Len(r.pool.accepted))
                        EXCEPT !.last_sunk = r.pool.buf[r.pool.held["sink"]].seq,
                               !.pool = release_empty(r.pool, "sink")])

do_rng_data_sink_loop(p) ==
    \/ sink_acquire(p)
    \/ sink_submit(p)

(***************************************************************************)
(* Specifications                                                          *)
(***************************************************************************)
\* one instance with its workers and the signals it may get
Next ==
    \/ main("A")
    \/ \E w \in Workers : worker("A", w)
    \/ sigterm("A")
    \/ sigusr1("A")

Spec == Init /\ [][Next]_vars

\* the process is scheduled: as long as the main thread can take a step (sleep()
\* returns) or a worker holds a mutex that it is about to release, one of
\* them does
Fairness ==
    WF_vars(main("A") \/ \E w \in Workers : worker_record("A", w))

FairSpec == Spec /\ Fairness

\* two instances racing for the pidfile; each may be asked to terminate
NextTwo ==
    \E p \in Procs :
        \/ main(p)
        \/ sigterm(p)

SpecTwo == InitTwo /\ [][NextTwo]_vars

\* the daemon as default_arguments configures it
InitPool == Init /\ proc["A"].daemon

\* one instance with the three workers on the buffer pool
NextPool ==
    \/ main("A")
    \/ do_rng_data_source_loop("A")
    \/ do_rng_fips_test_loop("A")
    \/ do_rng_data_sink_loop("A")

SpecPool == InitPool /\ [][NextPool]_vars

\* every thread of the process is scheduled, and the test and the sink thread
\* get the mutex of their statistics group when they need it: the main thread
\* holds a mutex only for the few statements of a dump and sleeps between two
\* dumps
FairnessPool ==
    /\ WF_vars(main("A"))
    /\ WF_vars(do_rng_data_source_loop("A"))
    /\ SF_vars(do_rng_fips_test_loop("A"))
    /\ SF_vars(do_rng_data_sink_loop("A"))

FairPool == SpecPool /\ FairnessPool

\* the main thread is scheduled: sleep() returns
FairMain == SpecPool /\ WF_vars(main("A"))

(***************************************************************************)
(* Properties                                                              *)
(***************************************************************************)
Exited(p) == proc[p].pc = "exited"
Started(p) == \E w \in Workers : proc[p].thread[w] = "running"
HasLogged(r, sev, msg) == \E i \in 1..Len(r.log) : r.log[i].sev = sev /\ r.log[i].msg = msg
Held(r) == {m \in Mutexes : r.mutex[m] = "main"}
Counters == {"bytes_received", "good_fips_blocks", "bad_fips_blocks", "bytes_sent",
             "entropy_sent"}

\* C1: whenever the process has exited (through die(), through the return after
\* a failed daemon(), or through the final exit(exitstatus)), dump_rng_stats()
\* has completed since sleep() last returned, that is on the way out.
C1_StatsFlushedOnEveryExit ==
    \A p \in Procs : Exited(p) => proc[p].flushed

\* C2: in daemon mode the instance holds the flock() lock on the pidfile
\* whenever init_rng_buffers has run or a pthread_create has been attempted;
\* an instance that left because the pidfile could not be opened or locked
\* left with EXIT_USAGE, had not gone daemon, had not initialised the buffers
\* and had attempted no pthread_create.
C2_LockBeforeSteadyState ==
    \A p \in Procs :
        LET r == proc[p]
        IN  /\ (r.daemon /\ Running(p)
                  /\ (r.buffers \/ \E w \in Workers : r.thread[w] # "none"))
               => (flock_owner = p /\ r.locked)
            /\ (r.daemon /\ r.pc \in {"daemon", "masterprocess", "init_rng_buffers",
                                      "pthread_create"})
               => flock_owner = p
            /\ (Exited(p) /\ r.site \in {"open", "lock"})
               => /\ r.exitcode = EXIT_USAGE
                  /\ ~r.am_daemon /\ r.pid = ParentPid(p)
                  /\ ~r.buffers
                  /\ \A w \in Workers : r.thread[w] = "none"

C2_Witness ==
    /\ proc["A"].daemon /\ proc["A"].pc = "sleep"
    /\ \A w \in Workers : proc["A"].thread[w] = "running"
    /\ flock_owner = "A"

\* C3 as stated: of the instances started with the same pidfile at most one
\* ever reaches the start of its worker threads, and every other one leaves
\* with EXIT_USAGE.
C3_AtMostOneEverStarts ==
    \A p, q \in Procs :
        (p # q /\ Started(p)) => (~Started(q) /\ (Exited(q) => proc[q].exitcode = EXIT_USAGE))

\* C3 amended: at any time at most one running instance has initialised its
\* buffers or started a worker, and it is the holder of the lock; an instance
\* that has obtained the lock holds it until it exits, across daemon() and the
\* second get_lock(), which never calls flock() again; an instance whose
\* flock() found the lock held has left with EXIT_USAGE and has not written
\* the pidfile.
C3_OneDaemonAtATime ==
    /\ \A p, q \in Procs :
          (p # q /\ Running(p) /\ Running(q))
             => ~((proc[p].buffers \/ Started(p)) /\ (proc[q].buffers \/ Started(q)))
    /\ \A p \in Procs :
          LET r == proc[p]
          IN  /\ (Running(p) /\ r.locked) => flock_owner = p
              /\ (Running(p) /\ (r.buffers \/ Started(p))) => r.locked
              /\ r.pc = "get_lock_flock" => (~r.am_daemon /\ ~r.locked)
              /\ HasLogged(r, "E", "can't lock %s, running daemon's pid may be %d")
                    => (Exited(p) /\ r.exitcode = EXIT_USAGE /\ ~r.locked)
              /\ (Exited(p) /\ r.site = "lock") => r.exitcode = EXIT_USAGE

C3_Witness ==
    \E p, q \in Procs :
        /\ p # q
        /\ proc[p].pc = "sleep" /\ proc[p].am_daemon /\ flock_owner = p
        /\ \A w \in Workers : proc[p].thread[w] = "running"
        /\ Exited(q) /\ proc[q].site = "lock" /\ proc[q].exitcode = EXIT_USAGE

\* C4: once the termination flag is set while the main loop runs, the process
\* eventually leaves through the final exit() with the value of exitstatus
\* (EXIT_SUCCESS and the "Exiting..." line when no worker recorded an error);
\* after a return of sleep() that found the flag set the main thread is never
\* in sleep() again; the workers are still running when the process exits.
C4_TerminationObserved ==
    /\ [](\A p \in Procs :
            LET r == proc[p]
            IN  /\ r.term_at_wake => r.pc # "sleep"
                /\ (Exited(p) /\ r.site = "final")
                   => /\ r.exitcode = r.exitstatus
                      /\ r.gotsigterm
                      /\ \A w \in Workers : r.thread[w] = "running"
                      /\ r.exitcode = EXIT_SUCCESS <=> HasLogged(r, "I", "Exiting..."))
    /\ \A p \in {"A"} :
          (proc[p].gotsigterm /\ proc[p].in_loop)
             ~> (Exited(p) /\ proc[p].site = "final" /\ proc[p].exitcode = proc[p].exitstatus)

C4_Witness ==
    /\ Exited("A") /\ proc["A"].site = "final"
    /\ proc["A"].term_at_wake /\ proc["A"].flushed
    /\ proc["A"].exitcode = EXIT_SUCCESS

\* the operand of || that main() is about to evaluate holds
IfOperand(r) ==
    CASE r.pc = "if_sleeptime" -> r.sleeptime = 0
      [] r.pc = "if_gotsigusr1" -> r.gotsigusr1
      [] r.pc = "if_gotsigterm" -> r.gotsigterm
      [] OTHER -> FALSE
IfPcs == {"if_sleeptime", "if_gotsigusr1", "if_gotsigterm"}

\* C5: after sleep() returns, dump_rng_stats() is called exactly when the
\* remainder is 0 or gotsigusr1 or gotsigterm is found set; the test changes
\* neither flag nor the remainder; after the dump the timer is 3600 again and
\* gotsigusr1 is clear; without a dump nothing changes the remainder, and it is
\* what the next sleep() gets.
C5_WakePolicy ==
    [][\A p \in Procs :
          LET r == proc[p]
              n == proc'[p]
          IN  /\ (r.pc \in IfPcs /\ n.pc # r.pc)
                 => /\ (n.pc = "dump_rng_stats") <=> IfOperand(r)
                    /\ (n.pc = "dump_rng_stats") => n.dpc = 1
                    /\ (r.pc = "if_gotsigterm" /\ ~IfOperand(r)) => n.pc = "while"
                    /\ n.sleeptime = r.sleeptime
                    /\ n.gotsigusr1 = r.gotsigusr1 /\ n.gotsigterm = r.gotsigterm
                    /\ n.flushed = r.flushed
              /\ (r.pc = "rearm" /\ n.pc # r.pc)
                 => (r.flushed /\ n.sleeptime = RNGD_STAT_SLEEP_TIME /\ ~n.gotsigusr1
                       /\ n.gotsigterm = r.gotsigterm)
              /\ (r.pc = "while" /\ n.pc # r.pc)
                 => /\ n.sleeptime = r.sleeptime
                    /\ r.flushed => r.sleeptime = RNGD_STAT_SLEEP_TIME
                    /\ n.gotsigusr1 = r.gotsigusr1 /\ n.gotsigterm = r.gotsigterm
       ]_vars

\* woken by a signal that set no flag: no dump, and the sleep resumes for the
\* remainder
C5_Witness ==
    /\ proc["A"].pc = "sleep" /\ ~proc["A"].flushed
    /\ proc["A"].sleeptime = SleepGrain
    /\ ~proc["A"].gotsigusr1 /\ ~proc["A"].gotsigterm

\* C6: in daemon mode, while worker threads exist, the pidfile holds exactly the
\* decimal PID of the daemonized process and a newline; that PID is
\* masterprocess and is not the PID of the parent that called daemon().
C6_PidfileHoldsDaemonPid ==
    \A p \in Procs :
        LET r == proc[p]
        IN  (r.daemon /\ Running(p) /\ Started(p))
               => /\ pidfile = PidLine(r.masterprocess)
                  /\ r.masterprocess = r.pid
                  /\ r.pid \in ChildPids(p)
                  /\ ScanPid(pidfile) # ParentPid(p)

C6_Witness ==
    /\ proc["A"].daemon /\ Started("A") /\ proc["A"].pc = "sleep"
    /\ pidfile = <<"5", "8", "\n">>

\* C7: the main thread holds at most one of the three mutexes at any time; it
\* holds none when it is about to lock one, and none outside dump_rng_stats();
\* when it logs a counter it holds the mutex of the counter's group; it never
\* waits for a mutex while it holds another.
C7_DumpLocksOneGroupAtATime ==
    \A p \in Procs :
        LET r == proc[p]
        IN  /\ Cardinality(Held(r)) <= 1
            /\ r.pc # "dump_rng_stats" => Held(r) = {}
            /\ r.pc = "dump_rng_stats"
               => LET s == DumpProg[r.dpc]
                  IN  /\ s.op = "lock" => Held(r) = {}
                      /\ s.op = "log" => Held(r) = {StatGroup(s.field)}
                      /\ s.op = "unlock" => Held(r) = {s.mutex}

\* the dump holds the sink's group while the source holds its own
C7_Witness ==
    /\ proc["A"].pc = "dump_rng_stats"
    /\ proc["A"].mutex["group3_mutex"] = "main"
    /\ proc["A"].mutex["group1_mutex"] = "source"
    /\ DumpProg[proc["A"].dpc].op = "log"

\* C8: every counter of rng_stats is the sum of what the workers have recorded
\* since the start of the process, and every number dump_rng_stats() has logged
\* was that sum; init_rng_stats() runs only while no worker has been created.
C8_StatsCumulative ==
    \A p \in Procs :
        LET r == proc[p]
        IN  /\ \A f \in Counters : r.rng_stats[f] = r.total[f]
            /\ r.logged_total
            /\ r.pc = "init_rng_stats" => \A w \in Workers : r.thread[w] = "none"

\* a dump has just returned, after every stage has recorded a block
C8_Witness ==
    /\ proc["A"].pc = "rearm"
    /\ proc["A"].total.bytes_received > 0
    /\ proc["A"].total.bad_fips_blocks > 0
    /\ proc["A"].total.entropy_sent = FIPS_RNG_BUFFER_SIZE * 8

\* C9 as stated: when dump_rng_stats() returns, buffer_lowmark starts again at
\* n - 1.
C9_LowmarkRestartsAtDump ==
    \A p \in Procs :
        proc[p].pc = "rearm" => proc[p].rng_stats.buffer_lowmark = rng_buffers - 1

\* C9 amended: once init_rng_stats() has run, buffer_lowmark is the least ready
\* count recorded since then, n - 1 when none was; no dump changes it.
C9_LowmarkSinceStart ==
    \A p \in Procs :
        LET r == proc[p]
        IN  r.pc \notin {"absent", "kernel_mode", "init_rng_stats"}
               => (r.kernel = "KERNEL_UNSUPPORTED"
                     \/ r.rng_stats.buffer_lowmark = r.least_ready)

C9_Witness ==
    /\ proc["A"].pc = "rearm"
    /\ proc["A"].rng_stats.buffer_lowmark = 0
    /\ proc["A"].least_ready = 0

\* C10: an instance that left because of an unsupported kernel, a failed
\* daemon() or a failed pthread_create left with EXIT_OSERR, one that left
\* because the pidfile could not be opened or locked left with EXIT_USAGE; each
\* had logged the error that names the cause, and none had entered the main
\* loop.
C10_StartupFailureExits ==
    \A p \in Procs :
        LET r == proc[p]
            cause(site, status, msgs) ==
                r.site = site
                   => /\ r.exitcode = status
                      /\ \E m \in msgs : HasLogged(r, "E", m)
                      /\ ~r.in_loop
        IN  /\ Exited(p) => r.site \in {"kernel", "open", "lock", "daemon", "threads", "final"}
            /\ Exited(p) =>
                 /\ cause("kernel", EXIT_OSERR, {"Unsupported kernel detected, exiting..."})
                 /\ cause("daemon", EXIT_OSERR, {"can't daemonize"})
                 /\ cause("threads", EXIT_OSERR, {"Insufficient resources to start threads"})
                 /\ cause("open", EXIT_USAGE, {"can't open or create %s"})
                 /\ cause("lock", EXIT_USAGE,
                          {"can't lock %s", "can't lock %s, running daemon's pid may be %d"})
            /\ (r.pc = "pthread_create" /\ \E w \in Workers : r.thread[w] = "failed")
               => ~r.in_loop
            /\ r.in_loop => (\A w \in Workers : r.thread[w] = "running")

\* the lock is held by a daemon started before: the instance names its PID and
\* leaves with EXIT_USAGE
C10_Witness ==
    /\ Exited("A") /\ proc["A"].site = "lock" /\ proc["A"].exitcode = EXIT_USAGE
    /\ proc["A"].log = << [sev |-> "E", msg |-> "can't lock %s, running daemon's pid may be %d",
                          arg |-> Decimal(ParentPid(Other))] >>

(***************************************************************************)
(* Properties of the buffer pool                                           *)
(***************************************************************************)
\* the number of times x occurs in the sequence s
Count(s, x) == Cardinality({k \in 1..Len(s) : s[k] = x})

\* the workers that hold buffer i
Holders(pool, i) == {w \in Workers : pool.held[w] = i}

\* the number of places buffer i is in: the three queues and the workers' hands
Places(pool, i) ==
    Count(pool.empty, i) + Count(pool.full, i) + Count(pool.accepted, i)
       + Cardinality(Holders(pool, i))

InFlight(pool) == {w \in Workers : pool.held[w] # 0}

\* C11: from init_rng_buffers() on the pool has the rng_buffers buffers, each of
\* them is in exactly one place (the empty, the ready-for-test or the
\* ready-for-sink queue, or the hands of one worker), the lengths of the queues
\* and the number of buffers in flight add up to rng_buffers, and no two
\* workers hold the same buffer; no worker exists before the pool does.
C11_BufferOwnership ==
    \A p \in Procs :
        LET r == proc[p]
            pool == r.pool
        IN  /\ (\E w \in Workers : r.thread[w] # "none") => r.buffers
            /\ r.buffers =>
                  /\ DOMAIN pool.buf = 1..rng_buffers
                  /\ \A i \in 1..rng_buffers : Places(pool, i) = 1
                  /\ Len(pool.empty) + Len(pool.full) + Len(pool.accepted)
                        + Cardinality(InFlight(pool)) = rng_buffers
                  /\ \A w \in Workers : pool.held[w] \in 0..rng_buffers
                  /\ \A v, w \in Workers :
                        (v # w /\ pool.held[v] # 0) => pool.held[v] # pool.held[w]

\* every stage holds a buffer at the same time
C11_Witness ==
    /\ \A w \in Workers : proc["A"].pool.held[w] # 0
    /\ proc["A"].pool.empty = <<>>
    /\ Cardinality({proc["A"].pool.held[w] : w \in Workers}) = rng_buffers

\* the fill numbers of the blocks in a queue, oldest first
Seqs(pool, queue) == [k \in 1..Len(queue) |-> pool.buf[queue[k]].seq]

Increasing(s) == \A j, k \in 1..Len(s) : j < k => s[j] < s[k]

\* the number of blocks the tests have given a verdict on
Tested(r) == r.total.good_fips_blocks + r.total.bad_fips_blocks

\* C12: the source numbers the blocks it commits 1, 2, 3, ...; the block the
\* test thread acquires is always the next one in that order (the k-th block
\* it acquires is block k), the block the sink acquires has a greater fill
\* number than every block it took before and is the oldest accepted one, and
\* both queues hold their blocks in fill order.
C12_PipelineFifo ==
    [][\A p \in Procs :
          LET r == proc[p]
              n == proc'[p]
              got(w) == r.pool.held[w] = 0 /\ n.pool.held[w] # 0
              block(w) == n.pool.buf[n.pool.held[w]]
          IN  /\ Increasing(Seqs(r.pool, r.pool.full))
              /\ Increasing(Seqs(r.pool, r.pool.accepted))
              /\ n.fills # r.fills
                 => /\ n.fills = r.fills + 1
                    /\ Seqs(n.pool, n.pool.full) = Append(Seqs(r.pool, r.pool.full), n.fills)
              /\ got("fips") => block("fips").seq = Tested(r) + 1
              /\ got("sink")
                 => /\ block("sink").seq > r.last_sunk
                    /\ \A k \in 1..Len(n.pool.accepted) :
                          block("sink").seq < n.pool.buf[n.pool.accepted[k]].seq
                    /\ fips_run_rng_test(block("sink"))
      ]_vars

\* the sink has taken block 3 right after block 1: block 2 failed the tests
C12_Witness ==
    /\ proc["A"].pool.held["sink"] # 0
    /\ proc["A"].pool.buf[proc["A"].pool.held["sink"]].seq = 3
    /\ proc["A"].last_sunk = 1
    /\ proc["A"].pool.full # <<>>

\* the number of buffers that have gone back to the empty queue
Released(r) == r.total.bad_fips_blocks + r.total.bytes_sent \div FIPS_RNG_BUFFER_SIZE

\* worker w waits in its acquire call and the queue it waits for is empty
Blocked(r, w) ==
    /\ r.pool.held[w] = 0
    /\ CASE w = "source" -> r.pool.empty = <<>>
         [] w = "fips" -> r.pool.full = <<>>
         [] w = "sink" -> r.pool.accepted = <<>>

\* the process runs and nothing has asked it to terminate
Steady(p) == Running(p) /\ proc[p].in_loop /\ ~proc[p].gotsigterm

\* C13: the blocks filled and not yet released are the ones in the two ready
\* queues and in the hands of the test and sink threads, so never more than
\* rng_buffers; with no empty buffer the source thread, waiting in
\* acquire_empty, cannot take a step, and with one it can; the three workers
\* are never all waiting at once; and when the threads are scheduled, a source
\* that waits with no empty buffer left gets one in the end (unless the process
\* is told to terminate first).
C13_Backpressure ==
    /\ [](\A p \in {"A"} :
            LET r == proc[p]
            IN  /\ r.fills - Released(r)
                      = Len(r.pool.full) + Len(r.pool.accepted)
                          + Cardinality(InFlight(r.pool) \ {"source"})
                /\ r.fills - Released(r) <= rng_buffers
                /\ (Alive(p, "source") /\ Blocked(r, "source"))
                      => ~ENABLED do_rng_data_source_loop(p)
                /\ (Alive(p, "source") /\ r.pool.held["source"] = 0
                      /\ r.pool.empty # <<>>)
                      => ENABLED source_acquire(p)
                /\ (r.in_loop /\ Running(p)) => \E w \in Workers : ~Blocked(r, w))
    /\ \A p \in {"A"} :
          (Steady(p) /\ Blocked(proc[p], "source"))
             ~> (proc[p].pool.held["source"] # 0 \/ ~Steady(p))

\* the sink has not drained anything, the tests have accepted rng_buffers
\* blocks and the source waits for an empty buffer
C13_Witness ==
    /\ Steady("A")
    /\ proc["A"].fills = rng_buffers
    /\ Len(proc["A"].pool.accepted) = rng_buffers
    /\ proc["A"].total.bytes_sent = 0
    /\ Blocked(proc["A"], "source")

\* the monobit test rejects the block
MonobitFails(block) == block.ones < MONOBIT_LOW \/ block.ones > MONOBIT_HIGH

\* the buffers the sink can get or has got
ForSink(pool) ==
    {pool.accepted[k] : k \in 1..Len(pool.accepted)} \cup ({pool.held["sink"]} \ {0})

\* C14: no buffer that is queued for the sink or in the sink's hands holds a
\* block the tests reject, in particular none with fewer than 9725 or more
\* than 10275 set bits; when the test thread commits a block the tests reject,
\* the buffer goes straight to the end of the empty queue, bad_fips_blocks
\* grows by exactly 1 and good_fips_blocks, bytes_sent and entropy_sent keep
\* their values; a block that passes adds 1 to good_fips_blocks only.
C14_BadBlocksNeverSent ==
    [][\A p \in Procs :
          LET r == proc[p]
              n == proc'[p]
              i == r.pool.held["fips"]
              block == r.pool.buf[i]
              bad == MonobitFails(block) \/ ~fips_run_rng_test(block)
          IN  /\ \A j \in ForSink(r.pool) :
                    /\ fips_run_rng_test(r.pool.buf[j])
                    /\ ~MonobitFails(r.pool.buf[j])
              /\ (i # 0 /\ n.pool.held["fips"] = 0 /\ bad)
                 => /\ n.pool.empty = Append(r.pool.empty, i)
                    /\ n.pool.accepted = r.pool.accepted
                    /\ n.pool.held["sink"] = r.pool.held["sink"]
                    /\ n.rng_stats.bad_fips_blocks = r.rng_stats.bad_fips_blocks + 1
                    /\ n.rng_stats.good_fips_blocks = r.rng_stats.good_fips_blocks
                    /\ n.rng_stats.bytes_sent = r.rng_stats.bytes_sent
                    /\ n.rng_stats.entropy_sent = r.rng_stats.entropy_sent
              /\ (i # 0 /\ n.pool.held["fips"] = 0 /\ ~bad)
                 => /\ n.pool.accepted = Append(r.pool.accepted, i)
                    /\ n.rng_stats.good_fips_blocks = r.rng_stats.good_fips_blocks + 1
                    /\ n.rng_stats.bad_fips_blocks = r.rng_stats.bad_fips_blocks
      ]_vars

\* of two blocks one was sent and the other was counted bad, and its buffer is
\* empty again
C14_Witness ==
    /\ Steady("A")
    /\ proc["A"].fills = 2
    /\ proc["A"].rng_stats.bad_fips_blocks = 1
    /\ proc["A"].rng_stats.good_fips_blocks = 1
    /\ proc["A"].rng_stats.bytes_sent = FIPS_RNG_BUFFER_SIZE
    /\ proc["A"].last_sunk = 1
    /\ Len(proc["A"].pool.empty) = rng_buffers

\* the position of the first line with this message in the log, 0 for none
LogIndex(r, msg) ==
    IF \E k \in 1..Len(r.log) : r.log[k].msg = msg
    THEN CHOOSE k \in 1..Len(r.log) :
             r.log[k].msg = msg /\ \A j \in 1..(k - 1) : r.log[j].msg # msg
    ELSE 0

\* bad_block_threshold bad blocks in a row have been counted
Escalated(r) == r.bad_run >= bad_block_threshold

\* C15: the test thread counts the bad blocks in a row; a block that passes
\* sets the count to 0 and leaves bad_fips_blocks as it is, a bad block adds 1
\* to both.  Below the threshold the exit status stays EXIT_SUCCESS, no
\* termination is requested and the main loop goes on; at the threshold the
\* cause is logged, the exit status is EXIT_OSERR and termination is requested,
\* and the process then leaves through the final exit() with EXIT_OSERR, the
\* cause logged before the exit line.
C15_FailureEscalation ==
    /\ [](\A p \in {"A"} :
            LET r == proc[p]
            IN  /\ r.bad_run \in 0..bad_block_threshold
                /\ r.bad_run <= r.rng_stats.bad_fips_blocks
                /\ ~Escalated(r)
                   => /\ r.exitstatus = EXIT_SUCCESS /\ ~r.gotsigterm
                      /\ ~HasLogged(r, "E", "too many FIPS failures in a row")
                      /\ r.in_loop => Running(p)
                /\ Escalated(r)
                   => /\ r.exitstatus = EXIT_OSERR /\ r.gotsigterm
                      /\ HasLogged(r, "E", "too many FIPS failures in a row")
                /\ (Exited(p) /\ r.site = "final")
                   => /\ Escalated(r)
                      /\ r.exitcode = EXIT_OSERR
                      /\ LogIndex(r, "too many FIPS failures in a row") > 0
                      /\ LogIndex(r, "too many FIPS failures in a row")
                            < LogIndex(r, "Exiting with status %d"))
    /\ [][\A p \in {"A"} :
            LET r == proc[p]
                n == proc'[p]
                tested == r.pool.held["fips"] # 0 /\ n.pool.held["fips"] = 0
                verdict == fips_run_rng_test(r.pool.buf[r.pool.held["fips"]])
            IN  /\ (tested /\ verdict)
                   => /\ n.bad_run = 0
                      /\ n.rng_stats.bad_fips_blocks = r.rng_stats.bad_fips_blocks
                      /\ n.exitstatus = r.exitstatus /\ n.gotsigterm = r.gotsigterm
                /\ (tested /\ ~verdict)
                   => /\ n.bad_run = r.bad_run + 1
                      /\ n.rng_stats.bad_fips_blocks = r.rng_stats.bad_fips_blocks + 1
                /\ ~tested => n.bad_run = r.bad_run
       ]_vars
    /\ \A p \in {"A"} :
          Escalated(proc[p]) ~> (Exited(p) /\ proc[p].exitcode = EXIT_OSERR)

\* one bad block, a good one, then two bad ones: the process went on after the
\* first and has left with EXIT_OSERR after the last
C15_Witness ==
    /\ Exited("A") /\ proc["A"].site = "final" /\ proc["A"].exitcode = EXIT_OSERR
    /\ proc["A"].rng_stats.bad_fips_blocks = 2 * bad_block_threshold - 1
    /\ proc["A"].rng_stats.good_fips_blocks = 1
    /\ proc["A"].last_sunk = bad_block_threshold

\* C16: when the process has left, no dump request is open: every SIGUSR1 that
\* arrived while main() was in the body of its loop, a dump in progress
\* included, was followed by a call of dump_rng_stats() that started after it.
C16_NoDumpRequestLost ==
    \A p \in Procs : Exited(p) => ~proc[p].req

Attempted(r) == {w \in Workers : r.thread[w] # "none"}
Failed(r) == {w \in Workers : r.thread[w] = "failed"}

\* C17: no pthread_create() is attempted before init_rng_buffers(); main()
\* goes past the if of the three pthread_create() calls only when all three
\* were attempted, into the loop exactly when none failed and out through
\* die(EXIT_OSERR) exactly when one did; in the loop, and up to the final
\* exit(), the three workers exist.
C17_WorkersAllOrNothing ==
    /\ [](\A p \in Procs :
            LET r == proc[p]
            IN  /\ Attempted(r) # {} => r.buffers
                /\ r.pc = "pthread_create" => r.buffers /\ ~r.in_loop
                /\ r.in_loop => (Attempted(r) = Workers /\ Failed(r) = {})
                /\ (Exited(p) /\ r.site = "threads")
                   => /\ Attempted(r) = Workers /\ Failed(r) # {}
                      /\ r.exitcode = EXIT_OSERR /\ ~r.in_loop
                /\ (Exited(p) /\ Failed(r) # {}) => r.site = "threads")
    /\ [][\A p \in Procs :
            LET r == proc[p]
                n == proc'[p]
            IN  (r.pc = "pthread_create" /\ n.pc # r.pc)
                   => /\ Attempted(r) = Workers
                      /\ n.thread = r.thread
                      /\ n.pc = IF Failed(r) = {} THEN "while" ELSE "exited"
       ]_vars

\* the second thread could not be created: the third was attempted all the
\* same, and the process has left
C17_Witness ==
    /\ Exited("A") /\ proc["A"].site = "threads"
    /\ proc["A"].thread = [source |-> "running", fips |-> "failed", sink |-> "running"]

\* C18: whenever main() calls sleep(), its argument is at least 1 and at most
\* RNGD_STAT_SLEEP_TIME; what sleep() returns is not more than its argument;
\* from the moment the timer is set until the next dump, the seconds slept and
\* the seconds left add up to RNGD_STAT_SLEEP_TIME, so a dump that starts
\* because the remainder is 0 starts after exactly RNGD_STAT_SLEEP_TIME seconds
\* of sleep, however often sleep() was interrupted.
C18_TimerBookkeeping ==
    /\ [](\A p \in Procs :
            LET r == proc[p]
            IN  /\ r.pc = "sleep"
                   => (1 <= r.sleeptime /\ r.sleeptime <= RNGD_STAT_SLEEP_TIME)
                /\ (r.in_loop /\ Running(p) /\ r.pc # "rearm")
                   => r.slept + r.sleeptime = RNGD_STAT_SLEEP_TIME)
    /\ [][\A p \in Procs :
            LET r == proc[p]
                n == proc'[p]
            IN  /\ (r.pc = "sleep" /\ n.pc # r.pc)
                   => /\ 0 <= n.sleeptime /\ n.sleeptime <= r.sleeptime
                      /\ n.slept - r.slept = r.sleeptime - n.sleeptime
                /\ (r.pc = "if_sleeptime" /\ n.pc = "dump_rng_stats")
                   => /\ r.slept = RNGD_STAT_SLEEP_TIME
                      /\ n.slept = r.slept
                /\ (r.pc = "rearm" /\ n.pc # r.pc)
                   => (n.sleeptime = RNGD_STAT_SLEEP_TIME /\ n.slept = 0)
       ]_vars

\* the timer has run out with no signal flag set: a dump starts
C18_Witness ==
    /\ proc["A"].pc = "dump_rng_stats" /\ proc["A"].dpc = 1
    /\ proc["A"].sleeptime = 0 /\ proc["A"].slept = RNGD_STAT_SLEEP_TIME
    /\ ~proc["A"].gotsigusr1 /\ ~proc["A"].gotsigterm

====
